---- MODULE Spec2Model ----
(***************************************************************************)
(* Model of proxmoxbalancer.py: the ProxmoxBalancer run (balance), its two *)
(* planning passes (rule_pass, balance_pass), the imbalance evaluation,    *)
(* the migration loop (run_migrate / wait_for_task) and the lock file that *)
(* serialises concurrent runs.                                             *)
(*                                                                         *)
(* Points are modelled as integers.  The average used by get_totals is a   *)
(* quotient by the number of hosts; comparisons that involve it are scaled *)
(* by the number of hosts so that they stay exact over the integers.       *)
(* Rule strings ("vm:host", "vmA,vmB") are modelled after their split().   *)
(***************************************************************************)
EXTENDS Integers, Sequences, FiniteSets, TLC

VARIABLES
    inventory,   \* what the Proxmox API reports: hosts, capacities, VM facts
    config,      \* the loaded configuration (self.config)
    cluster,     \* the real placement of every VM: vm -> host
    tasks,       \* migration tasks the cluster is still running
    lock,        \* holder of infra_lock_file (0: free)
    pc,          \* per run: position in balance()
    dry,         \* per run: self.dry
    node_list,   \* per run: self.node_list
    cursor,      \* per run: position of the host/VM loops of a pass
    rule_ops,    \* per run: operations returned by rule_pass
    bal_ops,     \* per run: operations returned by balance_pass
    oi,          \* per run: index of the operation run_migrate handles
    taskid,      \* per run: the task wait_for_task polls
    hist         \* per run: what the run has done so far (observations)

vars == <<inventory, config, cluster, tasks, lock, pc, dry, node_list, cursor,
          rule_ops, bal_ops, oi, taskid, hist>>

-----------------------------------------------------------------------------
(* Bounds and name spaces *)

MaxCap == 2                  \* capacity points of a host range over 1..MaxCap
MaxPolls == 2                \* task_status calls of a run are counted up to MaxPolls
AllHosts == <<"h1", "h2", "h3">>
GhostHost == "hx"            \* a host name no inventory contains
VMs == {"a", "b", "c", "d"}
VMOrder == <<"a", "b", "c", "d">> \* the order in which the API lists VMs (by vmid)
Procs == {1, 2}
NoHost == "none"             \* Python's False / 0: "no target"
NoTask == [vm |-> "none", host |-> NoHost, target |-> NoHost, owner |-> 0]

Range(s) == {s[i] : i \in 1..Len(s)}

RECURSIVE SumOver(_, _)
SumOver(S, f) ==
    IF S = {} THEN 0
    ELSE LET x == CHOOSE y \in S : TRUE IN f[x] + SumOver(S \ {x}, f)

RECURSIVE SelectSeqBy(_, _)
\* [x for x in s if x in keep], keeping the order of s
SelectSeqBy(s, keep) ==
    IF s = <<>> THEN <<>>
    ELSE (IF Head(s) \in keep THEN <<Head(s)>> ELSE <<>>) \o SelectSeqBy(Tail(s), keep)

Abs(x) == IF x < 0 THEN -x ELSE x

-----------------------------------------------------------------------------
(* regenerate_lists *)

\* The running VMs the API lists for a node, in listing order.
ListedVMs(inv, cl, h) ==
    SelectSeqBy(VMOrder, {v \in VMs : cl[v] = h /\ inv.running[v]})

\* One iteration of the loop of regenerate_lists(): the entry of node h is
\* (re)assigned, a new key going last in the dict's order; its running VMs
\* are what qemu.get() lists for h at this moment, keyed by name in listing
\* order, and used_points is their summed points.
regenerate_node(inv, cl, nl, h) ==
    [order |-> IF h \in Range(nl.order) THEN nl.order ELSE Append(nl.order, h),
     vms   |-> [nl.vms EXCEPT ![h] = ListedVMs(inv, cl, h)],
     used  |-> [nl.used EXCEPT ![h] = SumOver(Range(ListedVMs(inv, cl, h)), inv.points)]]

EmptyNodeList ==
    [order |-> <<>>,
     vms   |-> [h \in Range(AllHosts) |-> <<>>],
     used  |-> [h \in Range(AllHosts) |-> 0]]

-----------------------------------------------------------------------------
(* Constraint rule engine *)

NoRule == [type |-> "none", node |-> NoHost, rule |-> <<>>]

RECURSIVE FirstPin(_, _)
FirstPin(pins, vm_name) ==
    IF pins = <<>> THEN NoRule
    ELSE IF Head(pins)[1] = vm_name
         THEN [type |-> "pinned", node |-> Head(pins)[2], rule |-> <<>>]
         ELSE FirstPin(Tail(pins), vm_name)

RECURSIVE FirstGroup(_, _, _)
FirstGroup(groups, vm_name, type) ==
    IF groups = <<>> THEN NoRule
    ELSE IF vm_name \in Range(Head(groups))
         THEN [type |-> type, node |-> NoHost, rule |-> Head(groups)]
         ELSE FirstGroup(Tail(groups), vm_name, type)

\* get_rule: pin first, then separate, then unite; the first match wins.
get_rule(cfg, vm_name) ==
    LET p == FirstPin(cfg.pin, vm_name)
        s == FirstGroup(cfg.separate, vm_name, "separate")
        u == FirstGroup(cfg.unite, vm_name, "unite")
    IN  IF p.type # "none" THEN p
        ELSE IF s.type # "none" THEN s
        ELSE IF cfg.hasUnite THEN u
        ELSE NoRule

is_pinned(cfg, vm_name) == get_rule(cfg, vm_name).type = "pinned"

other_vms(rule, vm_name) == {x \in Range(rule) : x # vm_name}

should_separate(rule, vm_name, node_vms) ==
    \E item \in Range(node_vms) : item \in other_vms(rule, vm_name)

should_unite(rule, vm_name, node_vms) ==
    ~(\A item \in other_vms(rule, vm_name) : item \in Range(node_vms))

RECURSIVE LowestLoop(_, _, _, _)
LowestLoop(cands, cap, candidate_host, lowest_point_score) ==
    IF cands = <<>> THEN candidate_host
    ELSE LET c  == Head(cands)
             h1 == IF candidate_host = NoHost THEN c ELSE candidate_host
             s1 == IF candidate_host = NoHost THEN cap[c] ELSE lowest_point_score
         IN  IF cap[c] > s1
             THEN LowestLoop(Tail(cands), cap, c, cap[c])
             ELSE LowestLoop(Tail(cands), cap, h1, s1)

\* get_lowest_candidate: the first candidate of the greatest capacity points,
\* NoHost for an empty list.
get_lowest_candidate(inv, candidates) ==
    LowestLoop(candidates, inv.capacity, NoHost, 0)

unite(inv, nl, rule, vm_name) ==
    get_lowest_candidate(inv,
        SelectSeqBy(nl.order,
            {x \in Range(nl.order) :
                \E item \in Range(nl.vms[x]) : item \in Range(rule)}))

\* separate() falling back on the first host when no candidate is left.
SeparateFallsBack(inv, nl, rule, vm_name) ==
    LET candidates ==
            SelectSeqBy(nl.order,
                {x \in Range(nl.order) :
                    ~(\E item \in Range(nl.vms[x]) : item \in other_vms(rule, vm_name))})
    IN  IF candidates = <<>> THEN nl.order[1] ELSE get_lowest_candidate(inv, candidates)

separate(inv, nl, rule, vm_name) ==
    get_lowest_candidate(inv,
        SelectSeqBy(nl.order,
            {x \in Range(nl.order) :
                ~(\E item \in Range(nl.vms[x]) : item \in other_vms(rule, vm_name))}))

-----------------------------------------------------------------------------
(* The host/VM loops of a pass: for node_name in node_list, for vm_name in vms *)

RECURSIVE Seek(_, _, _)
\* The first loop position at or after (ni, vi) that holds a VM; ni beyond the
\* last host when the loops are over.
Seek(nl, ni, vi) ==
    IF ni > Len(nl.order) THEN [ni |-> ni, vi |-> 1]
    ELSE IF vi <= Len(nl.vms[nl.order[ni]]) THEN [ni |-> ni, vi |-> vi]
    ELSE Seek(nl, ni + 1, 1)

AtEnd(nl, cur) == cur.ni > Len(nl.order)
CurNode(nl, cur) == nl.order[cur.ni]
CurVM(nl, cur) == nl.vms[nl.order[cur.ni]][cur.vi]

-----------------------------------------------------------------------------
(* rule_pass *)

\* rule_pass without the test that the pinned node is in node_list.
RuleTargetAnyPinnedNode(inv, cfg, nl, node_name, vm_name) ==
    LET rule == get_rule(cfg, vm_name) IN
    IF rule.type = "unite" /\ should_unite(rule.rule, vm_name, nl.vms[node_name])
        THEN unite(inv, nl, rule.rule, vm_name)
    ELSE IF rule.type = "separate" /\ should_separate(rule.rule, vm_name, nl.vms[node_name])
        THEN separate(inv, nl, rule.rule, vm_name)
    ELSE IF rule.type = "pinned" /\ rule.node # node_name
        THEN rule.node
    ELSE NoHost

\* The target rule_pass computes for one VM found on node_name.
RuleTarget(inv, cfg, nl, node_name, vm_name) ==
    LET rule == get_rule(cfg, vm_name) IN
    IF rule.type = "unite" /\ should_unite(rule.rule, vm_name, nl.vms[node_name])
        THEN unite(inv, nl, rule.rule, vm_name)
    ELSE IF rule.type = "separate" /\ should_separate(rule.rule, vm_name, nl.vms[node_name])
        THEN separate(inv, nl, rule.rule, vm_name)
    ELSE IF rule.type = "pinned" /\ rule.node # node_name /\ rule.node \in Range(nl.order)
        THEN rule.node
    ELSE NoHost

\* rule_pass without the comparison of the target with the current host.
RuleMovesAnyTarget(target, node_name) == target # NoHost

\* "If we have to move, do."
RuleMoves(target, node_name) == target # NoHost /\ target # node_name

\* node_list[target]["vms"][vm_name] = node_list[node_name]["vms"][vm_name]:
\* the entry is added under the target; nothing is deleted from the source.
RuleProject(nl, node_name, target, vm_name) ==
    [nl EXCEPT !.vms[target] =
        IF vm_name \in Range(@) THEN @ ELSE Append(@, vm_name)]

Op(vm_name, host, target) == [vm_name |-> vm_name, host |-> host, target |-> target]

Diag(kind, vm_name) == [kind |-> kind, vm_name |-> vm_name]

\* The lines rule_pass and separate() print for one VM found on node_name:
\* "Rule violation detected", "No suitable candidate host found",
\* "Cannot enforce rule: node not in list".
RuleDiags(inv, cfg, nl, node_name, vm_name) ==
    LET rule == get_rule(cfg, vm_name) IN
    IF rule.type = "unite" /\ should_unite(rule.rule, vm_name, nl.vms[node_name])
        THEN <<Diag("violation", vm_name)>>
    ELSE IF rule.type = "separate" /\ should_separate(rule.rule, vm_name, nl.vms[node_name])
        THEN IF separate(inv, nl, rule.rule, vm_name) = NoHost
             THEN <<Diag("violation", vm_name), Diag("no_candidate", vm_name)>>
             ELSE <<Diag("violation", vm_name)>>
    ELSE IF rule.type = "pinned" /\ rule.node # node_name
        THEN IF rule.node \in Range(nl.order)
             THEN <<Diag("violation", vm_name)>>
             ELSE <<Diag("violation", vm_name), Diag("no_node", vm_name)>>
    ELSE <<>>

-----------------------------------------------------------------------------
(* get_totals, calculate_imbalance, calculate_best_host, balance_pass *)

total_used_points(nl) == SumOver(Range(nl.order), nl.used)

\* total_disparity times the number of hosts:
\* sum |avg - used| = (sum |total - n * used|) / n.
ScaledDisparity(nl) ==
    LET n == Len(nl.order)
        t == total_used_points(nl)
    IN  SumOver(Range(nl.order), [h \in Range(nl.order) |-> Abs(t - n * nl.used[h])])

\* points / avg_points divides by zero when no points are used.
ImbalanceRaises(nl) == total_used_points(nl) = 0

\* The comparison with >= in place of >.
ExceedsAllowedOrEqual(cfg, nl) ==
    ScaledDisparity(nl) >= Len(nl.order) * Len(nl.order) * cfg.allowed_disparity

\* total_disparity > len(node_list) * allowed_disparity
ExceedsAllowed(cfg, nl) ==
    ScaledDisparity(nl) > Len(nl.order) * Len(nl.order) * cfg.allowed_disparity

\* "Make sure we abide by the rules": every separate and unite group naming
\* the VM is looked at, whatever get_rule would return for it.
SkipHost(cfg, nl, node_name, vm_name) ==
    \/ \E i \in 1..Len(cfg.separate) :
          /\ vm_name \in Range(cfg.separate[i])
          /\ \E vm \in Range(cfg.separate[i]) :
                vm # vm_name /\ vm \in Range(nl.vms[node_name])
    \/ \E i \in 1..Len(cfg.unite) :
          /\ vm_name \in Range(cfg.unite[i])
          /\ \E vm \in Range(cfg.unite[i]) :
                vm # vm_name /\ vm \notin Range(nl.vms[node_name])

RECURSIVE BestLoop(_, _, _, _, _, _, _, _)
BestLoop(cfg, nl, nodes, current_node, vm_name, points, new_host, new_host_points) ==
    IF nodes = <<>> THEN new_host
    ELSE LET node_name  == Head(nodes)
             new_points == nl.used[node_name] + points
         IN  IF node_name = current_node \/ SkipHost(cfg, nl, node_name, vm_name)
             THEN BestLoop(cfg, nl, Tail(nodes), current_node, vm_name, points,
                           new_host, new_host_points)
             ELSE IF /\ new_points < nl.used[current_node]
                     /\ (new_points < new_host_points \/ new_host_points = 0)
             THEN BestLoop(cfg, nl, Tail(nodes), current_node, vm_name, points,
                           node_name, new_points)
             ELSE BestLoop(cfg, nl, Tail(nodes), current_node, vm_name, points,
                           new_host, new_host_points)

\* rules["unite"] is read without a default: KeyError when the key is absent.
BestHostRaises(cfg) == ~cfg.hasUnite

\* A choice of target that ignores the loads: the first other host that the
\* rules allow.
FirstAllowedHost(inv, cfg, nl, current_node, vm_name) ==
    LET allowed == SelectSeqBy(nl.order,
                       {h \in Range(nl.order) :
                           h # current_node /\ ~SkipHost(cfg, nl, h, vm_name)})
    IN  IF allowed = <<>> THEN NoHost ELSE allowed[1]

calculate_best_host(inv, cfg, nl, current_node, vm_name) ==
    BestLoop(cfg, nl, nl.order, current_node, vm_name, inv.points[vm_name], NoHost, 0)

\* balance_pass without the is_pinned test.
BalanceSkipsStoppedOnly(inv, cfg, vm_name) == ~inv.running[vm_name]

\* vm["status"] == "stopped" or self.is_pinned(vm_name)
BalanceSkips(inv, cfg, vm_name) == ~inv.running[vm_name] \/ is_pinned(cfg, vm_name)

\* balance_pass without the subtraction from the source host.
BalanceProjectAddOnly(nl, node_name, target, points) ==
    [nl EXCEPT !.used[target] = @ + points]

\* used_points of the source decreases and of the target increases by the
\* VM's points; the VM sets are left as fetched.
BalanceProject(nl, node_name, target, points) ==
    [nl EXCEPT !.used[node_name] = @ - points, !.used[target] = @ + points]

-----------------------------------------------------------------------------
(* The run: balance() *)

InitHist ==
    [fetches  |-> 0,        \* inventory fetches made
     fetched  |-> EmptyNodeList,  \* node_list as the last completed fetch built it
     posts    |-> 0,        \* migration calls made
     issued   |-> 0,        \* migration calls made for rule_pass operations
     awaited  |-> 0,        \* rule_pass tasks seen with a status other than "running"
     outside  |-> FALSE,    \* a fetch or a migration call made without the lock
     balanced |-> "no",     \* "yes": balance_pass was entered, "skipped": it was not
     failed   |-> FALSE,    \* a migration call raised
     reported |-> <<>>,     \* operations printed by run_migrate, in order
     polls    |-> 0,        \* task_status calls made, counted up to MaxPolls
     diag     |-> <<>>,     \* lines printed by rule_pass, in order
     disparity |-> -1]      \* what calculate_imbalance returned, times the
                            \* number of hosts; -1 before it has returned

Task(op, r) == [vm |-> op.vm_name, host |-> op.host, target |-> op.target, owner |-> r]

\* A lock that is granted whoever holds it.
CanAcquireAlways(r) == TRUE

\* locket.lock_file(...).acquire succeeds only on a free lock file.
CanAcquire(r) == lock = 0

\* with locket.lock_file(infra_lock_file, timeout=120): __enter__
Acquire(r) ==
    /\ pc[r] = "start"
    /\ CanAcquire(r)
    /\ lock' = r
    /\ pc' = [pc EXCEPT ![r] = "fetch1"]
    /\ UNCHANGED <<inventory, config, cluster, tasks, dry, node_list, cursor,
                   rule_ops, bal_ops, oi, taskid, hist>>

\* The lock stayed taken for the whole timeout: LockError, balance() never starts.
LockTimeout(r) ==
    /\ pc[r] = "start"
    /\ lock # 0
    /\ lock # r
    /\ pc' = [pc EXCEPT ![r] = "aborted"]
    /\ UNCHANGED <<inventory, config, cluster, tasks, lock, dry, node_list, cursor,
                   rule_ops, bal_ops, oi, taskid, hist>>

\* self.regenerate_lists(), first or second call: proxmox.nodes.get()
\* returns the nodes; the loop over them starts.
Fetch(r) ==
    /\ pc[r] \in {"fetch1", "fetch2"}
    /\ pc' = [pc EXCEPT ![r] = IF pc[r] = "fetch1" THEN "fetch1_vms" ELSE "fetch2_vms"]
    /\ cursor' = [cursor EXCEPT ![r] = [ni |-> 1, vi |-> 1]]
    /\ hist' = [hist EXCEPT ![r].outside = @ \/ lock # r]
    /\ UNCHANGED <<inventory, config, cluster, tasks, lock, dry, node_list,
                   rule_ops, bal_ops, oi, taskid>>

\* One node of the loop of regenerate_lists(): nodes(node_name).qemu.get()
\* lists the node's VMs as the cluster has them now. After the last node
\* regenerate_lists() returns and the pass that follows starts its loops at
\* the first VM.
FetchNode(r) ==
    /\ pc[r] \in {"fetch1_vms", "fetch2_vms"}
    /\ LET h    == inventory.hosts[cursor[r].ni]
           nl   == regenerate_node(inventory, cluster, node_list[r], h)
           last == cursor[r].ni = Len(inventory.hosts)
       IN  /\ node_list' = [node_list EXCEPT ![r] = nl]
           /\ cursor' = [cursor EXCEPT ![r] =
                           IF last THEN Seek(nl, 1, 1) ELSE [ni |-> @.ni + 1, vi |-> 1]]
           /\ hist' = [hist EXCEPT ![r].fetches = IF last THEN @ + 1 ELSE @,
                                   ![r].fetched = IF last THEN nl ELSE @,
                                   ![r].outside = @ \/ lock # r]
           /\ pc' = [pc EXCEPT ![r] =
                       IF ~last THEN @
                       ELSE IF @ = "fetch1_vms" THEN "rule_pass" ELSE "imbalance"]
    /\ UNCHANGED <<inventory, config, cluster, tasks, lock, dry,
                   rule_ops, bal_ops, oi, taskid>>

\* One iteration of the loops of rule_pass.
RuleVisit(r) ==
    /\ pc[r] = "rule_pass"
    /\ ~AtEnd(node_list[r], cursor[r])
    /\ LET nl        == node_list[r]
           node_name == CurNode(nl, cursor[r])
           vm_name   == CurVM(nl, cursor[r])
           target    == RuleTarget(inventory, config, nl, node_name, vm_name)
           nl2       == IF RuleMoves(target, node_name)
                        THEN RuleProject(nl, node_name, target, vm_name)
                        ELSE nl
       IN  /\ rule_ops' = [rule_ops EXCEPT ![r] =
                             IF RuleMoves(target, node_name)
                             THEN Append(@, Op(vm_name, node_name, target))
                             ELSE @]
           /\ node_list' = [node_list EXCEPT ![r] = nl2]
           /\ cursor' = [cursor EXCEPT ![r] = Seek(nl2, cursor[r].ni, cursor[r].vi + 1)]
           /\ hist' = [hist EXCEPT ![r].diag =
                         @ \o RuleDiags(inventory, config, nl, node_name, vm_name)]
    /\ UNCHANGED <<inventory, config, cluster, tasks, lock, pc, dry,
                   bal_ops, oi, taskid>>

\* rule_pass returns; "for operation in operations" starts.
RulePassReturn(r) ==
    /\ pc[r] = "rule_pass"
    /\ AtEnd(node_list[r], cursor[r])
    /\ pc' = [pc EXCEPT ![r] = "rule_migrate"]
    /\ oi' = [oi EXCEPT ![r] = 1]
    /\ UNCHANGED <<inventory, config, cluster, tasks, lock, dry, node_list, cursor,
                   rule_ops, bal_ops, taskid, hist>>

InRulePhase(r) == pc[r] \in {"rule_migrate", "rule_wait"}
CurOps(r) == IF InRulePhase(r) THEN rule_ops[r] ELSE bal_ops[r]
MigratePc(r) == IF InRulePhase(r) THEN "rule_migrate" ELSE "bal_migrate"
WaitPc(r) == IF InRulePhase(r) THEN "rule_wait" ELSE "bal_wait"

\* run_migrate called with wait=(not async) for both passes.
WaitForUnlessAsync(cfg, rulePhase) == ~cfg.async

\* The wait argument balance() passes to run_migrate.
WaitFor(cfg, rulePhase) == IF rulePhase THEN TRUE ELSE ~cfg.async

\* An exception that is caught around run_migrate, the loop going on.
OnErrorContinue(p) == p

\* Where balance() goes when an exception leaves the with block.
OnError(p) == "error"

\* A dry flag that run_migrate never looks at.
CallsClusterAlways(d) == TRUE

\* "if not self.dry": run_migrate calls the cluster only when not dry.
CallsCluster(d) == ~d

\* run_migrate in dry mode: the operation is only reported.
MigrateDry(r) ==
    /\ pc[r] \in {"rule_migrate", "bal_migrate"}
    /\ oi[r] <= Len(CurOps(r))
    /\ ~CallsCluster(dry[r])
    /\ oi' = [oi EXCEPT ![r] = @ + 1]
    /\ hist' = [hist EXCEPT ![r].reported = Append(@, CurOps(r)[oi[r]])]
    /\ UNCHANGED <<inventory, config, cluster, tasks, lock, pc, dry, node_list,
                   cursor, rule_ops, bal_ops, taskid>>

\* run_migrate in live mode: migrate.post returns a task id.
MigratePost(r) ==
    /\ pc[r] \in {"rule_migrate", "bal_migrate"}
    /\ oi[r] <= Len(CurOps(r))
    /\ CallsCluster(dry[r])
    /\ LET t == Task(CurOps(r)[oi[r]], r) IN
        /\ tasks' = tasks \cup {t}
        /\ hist' = [hist EXCEPT ![r].posts = @ + 1,
                                ![r].reported = Append(@, CurOps(r)[oi[r]]),
                                ![r].issued = IF InRulePhase(r) THEN @ + 1 ELSE @,
                                ![r].outside = @ \/ lock # r]
        /\ IF WaitFor(config, InRulePhase(r))
           THEN /\ pc' = [pc EXCEPT ![r] = WaitPc(r)]
                /\ taskid' = [taskid EXCEPT ![r] = t]
                /\ oi' = oi
           ELSE /\ pc' = pc
                /\ taskid' = taskid
                /\ oi' = [oi EXCEPT ![r] = @ + 1]
    /\ UNCHANGED <<inventory, config, cluster, lock, dry, node_list, cursor,
                   rule_ops, bal_ops>>

\* run_migrate in live mode: migrate.post raises; the exception leaves
\* balance() through the with block, which releases the lock.
MigrateFail(r) ==
    /\ pc[r] \in {"rule_migrate", "bal_migrate"}
    /\ oi[r] <= Len(CurOps(r))
    /\ CallsCluster(dry[r])
    /\ hist' = [hist EXCEPT ![r].posts = @ + 1,
                            ![r].reported = Append(@, CurOps(r)[oi[r]]),
                            ![r].failed = TRUE,
                            ![r].outside = @ \/ lock # r]
    /\ pc' = [pc EXCEPT ![r] = OnError(pc[r])]
    /\ lock' = IF OnError(pc[r]) = "error" /\ lock = r THEN 0 ELSE lock
    /\ oi' = [oi EXCEPT ![r] = IF OnError(pc[r]) = "error" THEN @ ELSE @ + 1]
    /\ UNCHANGED <<inventory, config, cluster, tasks, dry, node_list, cursor,
                   rule_ops, bal_ops, taskid>>

\* wait_for_task: task_status is "running"; sleep and poll again.
PollRunning(r) ==
    /\ pc[r] \in {"rule_wait", "bal_wait"}
    /\ taskid[r] \in tasks
    /\ hist[r].polls < MaxPolls
    /\ hist' = [hist EXCEPT ![r].polls = @ + 1]
    /\ UNCHANGED <<inventory, config, cluster, tasks, lock, pc, dry, node_list,
                   cursor, rule_ops, bal_ops, oi, taskid>>

\* wait_for_task: task_status is not "running"; run_migrate returns.
PollDone(r) ==
    /\ pc[r] \in {"rule_wait", "bal_wait"}
    /\ taskid[r] \notin tasks
    /\ hist' = [hist EXCEPT ![r].awaited = IF InRulePhase(r) THEN @ + 1 ELSE @,
                            ![r].polls = IF @ < MaxPolls THEN @ + 1 ELSE @]
    /\ pc' = [pc EXCEPT ![r] = MigratePc(r)]
    /\ oi' = [oi EXCEPT ![r] = @ + 1]
    /\ taskid' = [taskid EXCEPT ![r] = NoTask]
    /\ UNCHANGED <<inventory, config, cluster, tasks, lock, dry, node_list, cursor,
                   rule_ops, bal_ops>>

\* The loop over the operations is over.
MigrateLoopEnd(r) ==
    /\ pc[r] \in {"rule_migrate", "bal_migrate"}
    /\ oi[r] > Len(CurOps(r))
    /\ pc' = [pc EXCEPT ![r] = IF InRulePhase(r) THEN "fetch2" ELSE "exit"]
    /\ UNCHANGED <<inventory, config, cluster, tasks, lock, dry, node_list, cursor,
                   rule_ops, bal_ops, oi, taskid, hist>>

\* calculate_imbalance() and the comparison with the allowed disparity.
Imbalance(r) ==
    /\ pc[r] = "imbalance"
    /\ IF ImbalanceRaises(node_list[r])
       THEN /\ pc' = [pc EXCEPT ![r] = "error"]
            /\ lock' = IF lock = r THEN 0 ELSE lock
            /\ hist' = hist
       ELSE IF ExceedsAllowed(config, node_list[r])
       THEN /\ pc' = [pc EXCEPT ![r] = "balance_pass"]
            /\ lock' = lock
            /\ hist' = [hist EXCEPT ![r].balanced = "yes",
                                    ![r].disparity = ScaledDisparity(node_list[r])]
       ELSE /\ pc' = [pc EXCEPT ![r] = "exit"]
            /\ lock' = lock
            /\ hist' = [hist EXCEPT ![r].balanced = "skipped",
                                    ![r].disparity = ScaledDisparity(node_list[r])]
    /\ UNCHANGED <<inventory, config, cluster, tasks, dry, node_list, cursor,
                   rule_ops, bal_ops, oi, taskid>>

\* One iteration of the loops of balance_pass.
BalanceVisit(r) ==
    /\ pc[r] = "balance_pass"
    /\ ~AtEnd(node_list[r], cursor[r])
    /\ LET nl        == node_list[r]
           node_name == CurNode(nl, cursor[r])
           vm_name   == CurVM(nl, cursor[r])
           skips     == BalanceSkips(inventory, config, vm_name)
           raises    == ~skips /\ BestHostRaises(config)
           target    == IF skips \/ raises THEN NoHost
                        ELSE calculate_best_host(inventory, config, nl, node_name, vm_name)
       IN  IF raises
           THEN /\ pc' = [pc EXCEPT ![r] = "error"]
                /\ lock' = IF lock = r THEN 0 ELSE lock
                /\ UNCHANGED <<bal_ops, node_list, cursor>>
           ELSE /\ bal_ops' = [bal_ops EXCEPT ![r] =
                                 IF target # NoHost
                                 THEN Append(@, Op(vm_name, node_name, target))
                                 ELSE @]
                /\ node_list' = [node_list EXCEPT ![r] =
                                 IF target # NoHost
                                 THEN BalanceProject(nl, node_name, target,
                                                     inventory.points[vm_name])
                                 ELSE nl]
                /\ cursor' = [cursor EXCEPT ![r] = Seek(nl, cursor[r].ni, cursor[r].vi + 1)]
                /\ UNCHANGED <<pc, lock>>
    /\ UNCHANGED <<inventory, config, cluster, tasks, dry, rule_ops, oi, taskid, hist>>

\* balance_pass returns; "for operation in operations" starts.
BalancePassReturn(r) ==
    /\ pc[r] = "balance_pass"
    /\ AtEnd(node_list[r], cursor[r])
    /\ pc' = [pc EXCEPT ![r] = "bal_migrate"]
    /\ oi' = [oi EXCEPT ![r] = 1]
    /\ UNCHANGED <<inventory, config, cluster, tasks, lock, dry, node_list, cursor,
                   rule_ops, bal_ops, taskid, hist>>

\* The with block ends: the lock file is released.
Release(r) ==
    /\ pc[r] = "exit"
    /\ lock' = IF lock = r THEN 0 ELSE lock
    /\ pc' = [pc EXCEPT ![r] = "done"]
    /\ UNCHANGED <<inventory, config, cluster, tasks, dry, node_list, cursor,
                   rule_ops, bal_ops, oi, taskid, hist>>

\* The cluster ends a migration task: the VM has moved, or the task failed
\* and the VM is where it was.
TaskEnds(t) ==
    /\ t \in tasks
    /\ tasks' = tasks \ {t}
    /\ \E moved \in BOOLEAN :
          cluster' = IF moved /\ cluster[t.vm] = t.host
                     THEN [cluster EXCEPT ![t.vm] = t.target]
                     ELSE cluster
    /\ UNCHANGED <<inventory, config, lock, pc, dry, node_list, cursor,
                   rule_ops, bal_ops, oi, taskid, hist>>

-----------------------------------------------------------------------------
(* Inputs: inventories, configurations, modes *)

Hosts == Range(AllHosts)
HostLists == {SubSeq(AllHosts, 1, n) : n \in 2..3}
PointChoices == {0, 10, 90}
DefaultDisparity == 20       \* allowed_disparity when the configuration has none
DisparityChoices == {DefaultDisparity, 50}

Cfg(pin, sep, uni, has, allowed, async) ==
    [pin |-> pin, separate |-> sep, unite |-> uni, hasUnite |-> has,
     allowed_disparity |-> allowed, async |-> async]

PinLists ==
    {<<>>, <<<<"a", "h2">>>>, <<<<"a", GhostHost>>>>, <<<<"c", "h1">>, <<"a", "h2">>>>}
SeparateLists == {<<>>, <<<<"a", "b">>>>, <<<<"a", "b", "c">>>>}
UniteLists == {<<>>, <<<<"a", "b">>>>, <<<<"b", "c">>>>, <<<<"a", "b", "c">>>>}

\* VM d is stopped on the first host except where InitCrowded runs it.
CoreVMs == {"a", "b", "c"}
Placements(hs) ==
    {[v \in VMs |-> IF v \in CoreVMs THEN p[v] ELSE hs[1]] : p \in [CoreVMs -> Range(hs)]}
PointVectors ==
    {[v \in VMs |-> IF v \in CoreVMs THEN p[v] ELSE 0] : p \in [CoreVMs -> PointChoices]}

Inv(hs, cap, pts, run) ==
    [hosts |-> hs, capacity |-> cap, points |-> pts, running |-> run]

AllRunning == [v \in VMs |-> TRUE]
CoreRunning == [v \in VMs |-> v \in CoreVMs]
FlatCapacity == [h \in Hosts |-> 1]
FlatPoints == [v \in VMs |-> 10]

InitRun(inv, cfg, cl, dr, started) ==
    /\ inventory = inv
    /\ config = cfg
    /\ cluster = cl
    /\ tasks = {}
    /\ lock = 0
    /\ pc = [r \in Procs |-> IF r \in started THEN "start" ELSE "off"]
    /\ dry = dr
    /\ node_list = [r \in Procs |-> EmptyNodeList]
    /\ cursor = [r \in Procs |-> [ni |-> 1, vi |-> 1]]
    /\ rule_ops = [r \in Procs |-> <<>>]
    /\ bal_ops = [r \in Procs |-> <<>>]
    /\ oi = [r \in Procs |-> 1]
    /\ taskid = [r \in Procs |-> NoTask]
    /\ hist = [r \in Procs |-> InitHist]

AllDry == [r \in Procs |-> TRUE]

\* Planning of the violation pass: every placement on two or three hosts,
\* every capacity ranking (capacities are only compared with each other, so
\* the least is 1; they are not read at all without a group rule), the
\* combinations of the rule lists; one dry run.
InitRules ==
    \E hs \in HostLists, cap \in [Hosts -> 1..MaxCap],
       pin \in PinLists, sep \in SeparateLists, uni \in UniteLists :
        \E cl \in Placements(hs) :
            /\ \A h \in Hosts \ Range(hs) : cap[h] = 1
            /\ \E h \in Range(hs) : cap[h] = 1
            /\ sep = <<>> /\ uni = <<>> => cap = FlatCapacity
            /\ pin = <<<<"a", GhostHost>>>> => uni = <<>>
            /\ InitRun(Inv(hs, cap, FlatPoints, CoreRunning),
                       Cfg(pin, sep, uni, TRUE, DefaultDisparity, TRUE), cl, AllDry, {1})

\* Planning of the load balancer: two or three hosts, every placement, every
\* choice of VM points, both thresholds; with two hosts VM c may be stopped;
\* one dry run.
BalanceConfigs ==
    {Cfg(<<>>, <<>>, <<>>, TRUE, d, TRUE) : d \in DisparityChoices} \cup
    {Cfg(pin, <<>>, <<>>, TRUE, DefaultDisparity, TRUE) :
        pin \in {<<<<"a", "h2">>>>, <<<<"a", GhostHost>>>>}} \cup
    {Cfg(<<>>, <<<<"a", "b">>>>, <<>>, TRUE, DefaultDisparity, TRUE),
     Cfg(<<>>, <<>>, <<<<"a", "b">>>>, TRUE, DefaultDisparity, TRUE)} \cup
    {Cfg(<<>>, <<>>, <<>>, FALSE, DefaultDisparity, TRUE),
     Cfg(<<<<"a", "h2">>>>, <<<<"a", "b">>>>, <<<<"b", "c">>>>, TRUE,
         DefaultDisparity, TRUE)}

InitBalance ==
    \E hs \in HostLists, pts \in PointVectors, cRuns \in BOOLEAN,
       cfg \in BalanceConfigs :
        \E cl \in Placements(hs) :
            /\ ~cRuns => Len(hs) = 2 /\ cl["c"] = "h1"
            /\ InitRun(Inv(hs, FlatCapacity, pts, [CoreRunning EXCEPT !["c"] = cRuns]),
                       cfg, cl, AllDry, {1})

\* Execution: one live run, synchronous or asynchronous balancing, every
\* placement on three hosts; here migrations are posted, polled and may fail.
LivePoints == [v \in VMs |-> IF v = "a" THEN 90 ELSE 10]
LiveConfigs ==
    {Cfg(pin, sep, uni, TRUE, DefaultDisparity, async) :
        pin \in {<<>>, <<<<"a", "h2">>>>}, sep \in {<<>>, <<<<"a", "b">>>>},
        uni \in {<<>>, <<<<"b", "c">>>>}, async \in BOOLEAN}

InitLive ==
    \E cl \in Placements(AllHosts), cfg \in LiveConfigs :
        InitRun(Inv(AllHosts, FlatCapacity, LivePoints, CoreRunning),
                cfg, cl, [r \in Procs |-> FALSE], {1})

\* Contention: two runs started against the same lock file and cluster.
InitContended ==
    \E cl \in {c \in Placements(AllHosts) : c["c"] = "h1"},
       dr \in [Procs -> BOOLEAN], async \in BOOLEAN :
        InitRun(Inv(AllHosts, FlatCapacity, LivePoints, CoreRunning),
                Cfg(<<<<"a", "h2">>>>, <<>>, <<>>, TRUE, DefaultDisparity, async), cl, dr, Procs)

\* Crowding: four running VMs on three hosts, a and b kept apart by a
\* Separate rule and fetched on different hosts, every choice of VM points;
\* one dry run.
InitCrowded ==
    \E pts \in [VMs -> PointChoices], uni \in {<<>>, <<<<"c", "d">>>>} :
        \E cl \in {c \in [VMs -> Hosts] : c["a"] = "h1" /\ c["b"] = "h2"} :
            InitRun(Inv(AllHosts, FlatCapacity, pts, AllRunning),
                    Cfg(<<>>, <<<<"a", "b">>>>, uni, TRUE, DefaultDisparity, TRUE),
                    cl, AllDry, {1})

Init == InitRules \/ InitBalance \/ InitLive \/ InitContended \/ InitCrowded

Step(r) ==
    \/ Acquire(r)
    \/ LockTimeout(r)
    \/ Fetch(r)
    \/ FetchNode(r)
    \/ RuleVisit(r)
    \/ RulePassReturn(r)
    \/ MigrateDry(r)
    \/ MigratePost(r)
    \/ MigrateFail(r)
    \/ PollRunning(r)
    \/ PollDone(r)
    \/ MigrateLoopEnd(r)
    \/ Imbalance(r)
    \/ BalanceVisit(r)
    \/ BalancePassReturn(r)
    \/ Release(r)

Next ==
    \/ \E r \in Procs : Step(r)
    \/ \E t \in tasks : TaskEnds(t)

Spec == Init /\ [][Next]_vars

\* The process of a run keeps executing, and every migration task ends: the
\* cluster eventually reports a status other than "running" for it.
\* The runs whose ending is checked: two runs contending for the lock, dry
\* or live, and one live run on an inventory whose VMs use no points.
ZeroPoints == [v \in VMs |-> 0]
InitFair ==
    \/ \E cl \in {c \in Placements(AllHosts) : c["b"] = "h1" /\ c["c"] = "h1"},
          dr \in [Procs -> BOOLEAN], async \in BOOLEAN :
           InitRun(Inv(AllHosts, FlatCapacity, LivePoints, CoreRunning),
                   Cfg(<<<<"a", "h2">>>>, <<>>, <<>>, TRUE, DefaultDisparity, async),
                   cl, dr, Procs)
    \/ \E cl \in {c \in Placements(AllHosts) : c["b"] = "h1" /\ c["c"] = "h1"} :
           InitRun(Inv(AllHosts, FlatCapacity, ZeroPoints, CoreRunning),
                   Cfg(<<<<"a", "h2">>>>, <<>>, <<>>, TRUE, DefaultDisparity, TRUE),
                   cl, [r \in Procs |-> FALSE], {1})

SpecFair ==
    /\ InitFair
    /\ [][Next]_vars
    /\ \A r \in Procs : WF_vars(Step(r))
    /\ WF_vars(\E t \in tasks : TaskEnds(t))

-----------------------------------------------------------------------------
(* Properties *)

PinnedNames == {config.pin[i][1] : i \in 1..Len(config.pin)}
RunningVMs == {v \in VMs : inventory.running[v]}

\* C1: no operation emitted by rule_pass or by balance_pass has its source
\* host equal to its target host.
C1_NoSelfMove ==
    \A r \in Procs :
        /\ \A i \in 1..Len(rule_ops[r]) : rule_ops[r][i].host # rule_ops[r][i].target
        /\ \A i \in 1..Len(bal_ops[r]) : bal_ops[r][i].host # bal_ops[r][i].target

\* A run that emitted operations in both passes, the violation pass for a
\* Unite violation.
C1_Witness ==
    \E r \in Procs :
        /\ \E i \in 1..Len(rule_ops[r]) :
              get_rule(config, rule_ops[r][i].vm_name).type = "unite"
        /\ Len(bal_ops[r]) > 0

\* C2: a VM for which a Pin rule is declared is never the subject of an
\* operation of balance_pass, whether or not its pinned host exists.
C2_PinnedNeverBalanced ==
    \A r \in Procs :
        \A i \in 1..Len(bal_ops[r]) : bal_ops[r][i].vm_name \notin PinnedNames

\* balance_pass moved a VM off a host while leaving there a VM pinned to a
\* host that is not in the inventory.
C2_Witness ==
    \E r \in Procs :
        \E i \in 1..Len(bal_ops[r]) :
            \E v \in PinnedNames :
                /\ get_rule(config, v).node = GhostHost
                /\ v \in Range(node_list[r].vms[bal_ops[r][i].host])

\* The summed points of the VM entries a fetch listed, host by host.
ListedPoints(nl) ==
    SumOver(Range(nl.order),
            [h \in Range(nl.order) |-> SumOver(Range(nl.vms[h]), inventory.points)])

\* C3: the sum of used_points over all hosts is the same before and after
\* any sequence of planned operations and equals the summed demand points of
\* the fetched VMs.
C3_PointsConserved ==
    \A r \in Procs :
        hist[r].fetches > 0 /\ pc[r] \notin {"fetch1_vms", "fetch2_vms"} =>
            /\ total_used_points(node_list[r]) = total_used_points(hist[r].fetched)
            /\ total_used_points(node_list[r]) = ListedPoints(hist[r].fetched)

\* Operations were planned by both passes and the balancer moved points.
C3_Witness ==
    \E r \in Procs :
        /\ Len(rule_ops[r]) > 0
        /\ \E i \in 1..Len(bal_ops[r]) : inventory.points[bal_ops[r][i].vm_name] > 0
        /\ node_list[r].used # hist[r].fetched.used

HostsOf(nl, v) == {h \in Range(nl.order) : v \in Range(nl.vms[h])}

\* C4: during and after rule_pass every VM name is a key of exactly one
\* host's VM set (an operation moves the entry from the source to the target).
C4_ExactlyOneHost ==
    \A r \in Procs :
        pc[r] \in {"rule_pass", "rule_migrate", "rule_wait"} =>
            \A v \in RunningVMs : Cardinality(HostsOf(node_list[r], v)) = 1

\* C5: after a fetch, used_points of every host equals the summed demand
\* points of the VMs the projected model assigns to that host.
C5_UsedMatchesAssigned ==
    \A r \in Procs :
        hist[r].fetches > 0 =>
            \A h \in Range(node_list[r].order) :
                node_list[r].used[h] =
                    SumOver(Range(node_list[r].vms[h]), inventory.points)

\* The placement a fetched node_list describes, and the placement after a
\* list of operations was applied to it in order.
PlacementOf(nl) ==
    [v \in VMs |-> IF HostsOf(nl, v) = {} THEN NoHost
                   ELSE CHOOSE h \in HostsOf(nl, v) : TRUE]

RECURSIVE ApplyOps(_, _)
ApplyOps(pl, ops) ==
    IF ops = <<>> THEN pl
    ELSE ApplyOps([pl EXCEPT ![Head(ops).vm_name] = Head(ops).target], Tail(ops))

Members(rule, v) == {m \in Range(rule) : m # v}

SeparateViolated(pl, hs, rule, v) ==
    /\ \E m \in Members(rule, v) : pl[m] = pl[v]
    /\ \E h \in hs : \A m \in Members(rule, v) : pl[m] # h

UniteViolated(pl, hs, rule, v) ==
    /\ \E m \in Members(rule, v) : pl[m] # pl[v]
    /\ \E h \in hs : \A m \in Members(rule, v) : pl[m] = h

PinViolated(pl, hs, node, v) == node \in hs /\ pl[v] # node

Violates(pl, hs, v) ==
    LET rule == get_rule(config, v) IN
    /\ pl[v] # NoHost
    /\ \/ rule.type = "separate" /\ SeparateViolated(pl, hs, rule.rule, v)
       \/ rule.type = "unite" /\ UniteViolated(pl, hs, rule.rule, v)
       \/ rule.type = "pinned" /\ PinViolated(pl, hs, rule.node, v)

\* C6: after one rule_pass, in the fetched placement with its operations
\* applied in order, no VM violates its applicable rule when a remedial host
\* exists.
C6_NoViolationLeft ==
    \A r \in Procs :
        pc[r] = "rule_migrate" /\ oi[r] = 1 =>
            \A v \in VMs :
                ~Violates(ApplyOps(PlacementOf(hist[r].fetched), rule_ops[r]),
                          Range(inventory.hosts), v)

AfterRulePhase(r) ==
    pc[r] \in {"fetch2", "fetch2_vms", "imbalance", "balance_pass", "bal_migrate", "bal_wait",
               "exit", "done"}

\* C7: in live mode the second fetch, the imbalance evaluation and every
\* balance_pass decision come after every rule_pass operation was issued and
\* its task seen with a status other than "running"; and a rule_pass
\* migration is issued only after the previous task was seen to have ended.
C7_RuleOpsAwaitedFirst ==
    \A r \in Procs :
        ~dry[r] =>
            /\ hist[r].awaited <= hist[r].issued
            /\ hist[r].issued <= hist[r].awaited + 1
            /\ hist[r].issued > hist[r].awaited => pc[r] = "rule_wait"
            /\ (AfterRulePhase(r) \/ hist[r].fetches = 2 \/ hist[r].balanced # "no"
                    \/ bal_ops[r] # <<>>) =>
                  /\ hist[r].issued = Len(rule_ops[r])
                  /\ hist[r].awaited = Len(rule_ops[r])
            /\ pc[r] \in {"fetch2", "fetch2_vms", "imbalance", "balance_pass"} =>
                  \A t \in tasks : t.owner # r

\* A live run plans its load balancing after two violation-fixing migrations.
C7_Witness ==
    \E r \in Procs :
        ~dry[r] /\ pc[r] = "balance_pass" /\ Len(rule_ops[r]) >= 2 /\ config.async

Active(r) ==
    pc[r] \in {"fetch1", "fetch1_vms", "rule_pass", "rule_migrate", "rule_wait",
               "fetch2", "fetch2_vms", "imbalance", "balance_pass", "bal_migrate", "bal_wait", "exit"}

\* C8: at most one run at a time is between its first fetch and the end of
\* its balancing step; every fetch and migration call of a run is made while
\* it holds the lock; a run that does not obtain the lock fetches nothing and
\* issues no migration.
C8_OneRunAtATime ==
    /\ \A r1, r2 \in Procs : Active(r1) /\ Active(r2) => r1 = r2
    /\ \A r \in Procs :
        /\ Active(r) => lock = r
        /\ ~hist[r].outside
        /\ pc[r] \in {"start", "aborted"} =>
              hist[r].fetches = 0 /\ hist[r].posts = 0 /\ node_list[r] = EmptyNodeList

\* One run gave up on the lock while the other, holding it, has issued a
\* migration.
C8_Witness ==
    \E r1, r2 \in Procs :
        pc[r1] = "aborted" /\ lock = r2 /\ hist[r2].posts > 0 /\ Active(r2)

\* The summed absolute deviation from the average exceeds allowed_disparity
\* times the number of hosts (both sides multiplied by the number of hosts).
C9_Exceeds(nl) ==
    LET hs == Range(nl.order)
        n  == Cardinality(hs)
        t  == SumOver(hs, nl.used)
        dev == [h \in hs |-> IF t >= n * nl.used[h] THEN t - n * nl.used[h]
                             ELSE n * nl.used[h] - t]
    IN  SumOver(hs, dev) > config.allowed_disparity * n * n

Decided(r) == hist[r].fetches = 2 /\ pc[r] # "imbalance"

\* C9: balance_pass runs if and only if the disparity is strictly greater
\* than allowed_disparity times the number of hosts; otherwise the run plans
\* no load-balancing operation and changes no used_points (hosts used 90 and
\* 10: runs with allowed_disparity 20, does not with 50).
C9_RunsIffExceeds ==
    \A r \in Procs :
        Decided(r) =>
            /\ C9_Exceeds(hist[r].fetched) <=> hist[r].balanced = "yes"
            /\ ~C9_Exceeds(hist[r].fetched) =>
                  /\ bal_ops[r] = <<>>
                  /\ node_list[r].used = hist[r].fetched.used
                  /\ pc[r] \notin {"balance_pass", "bal_migrate", "bal_wait"}
            /\ (/\ Len(inventory.hosts) = 2
                /\ hist[r].fetched.used["h1"] = 90
                /\ hist[r].fetched.used["h2"] = 10) =>
                  (hist[r].balanced = "yes" <=> config.allowed_disparity = 20)

\* Two hosts used 90 and 10 with allowed_disparity 50: balancing is skipped.
C9_Witness ==
    \E r \in Procs :
        /\ Decided(r)
        /\ Len(inventory.hosts) = 2
        /\ hist[r].fetched.used["h1"] = 90
        /\ hist[r].fetched.used["h2"] = 10
        /\ config.allowed_disparity = 50
        /\ hist[r].balanced = "skipped"

\* C10: when a migration call fails the run ends in error: no later
\* operation is issued, no further pass is planned or executed (after a
\* failure in the violation pass: no second fetch, no balance_pass), and the
\* lock is released.
C10_FailureIsFatal ==
    /\ [](\A r \in Procs :
            hist[r].failed =>
                /\ pc[r] = "error"
                /\ lock # r
                /\ hist[r].fetches = 1 =>
                      hist[r].balanced = "no" /\ bal_ops[r] = <<>>)
    /\ [][\A r \in Procs :
            hist[r].failed =>
                /\ hist'[r] = hist[r]
                /\ pc'[r] = pc[r]
                /\ rule_ops'[r] = rule_ops[r]
                /\ bal_ops'[r] = bal_ops[r]
                /\ node_list'[r] = node_list[r]
                /\ \A t \in tasks' : t.owner = r => t \in tasks]_vars

\* A migration call of the violation pass failed while a later operation of
\* the pass was still to be issued.
C10_Witness ==
    \E r \in Procs :
        /\ hist[r].failed
        /\ hist[r].fetches = 1
        /\ oi[r] < Len(rule_ops[r])
        /\ lock = 0

IsPrefix(s, t) == Len(s) <= Len(t) /\ s = SubSeq(t, 1, Len(s))
Planned(r) == rule_ops[r] \o bal_ops[r]

\* C11: in dry-run mode the run makes no migration call and polls no task
\* status, for both passes and whatever async is, while every operation the
\* two passes planned is reported, in the order it was planned.
C11_DryRunCallsNothing ==
    \A r \in Procs :
        dry[r] =>
            /\ hist[r].posts = 0
            /\ hist[r].polls = 0
            /\ taskid[r] = NoTask
            /\ \A t \in tasks : t.owner # r
            /\ pc[r] \in {"rule_migrate", "fetch2", "fetch2_vms", "imbalance"} =>
                  hist[r].reported = SubSeq(rule_ops[r], 1, oi[r] - 1)
            /\ pc[r] = "bal_migrate" =>
                  hist[r].reported = rule_ops[r] \o SubSeq(bal_ops[r], 1, oi[r] - 1)
            /\ pc[r] \in {"exit", "done"} => hist[r].reported = Planned(r)
            /\ IsPrefix(hist[r].reported, Planned(r))

\* A dry run with synchronous balancing configured has ended after planning
\* operations in both passes.
C11_Witness ==
    \E r \in Procs :
        /\ dry[r]
        /\ ~config.async
        /\ pc[r] = "done"
        /\ Len(rule_ops[r]) > 0
        /\ Len(bal_ops[r]) > 0

OpsOn(ops, names) == SelectSeqBy(ops, {o \in Range(ops) : o.vm_name \in names})

\* The position of VM v in the enumeration of the fetched inventory.
EnumIndex(nl, h, v) == CHOOSE i \in 1..Len(nl.vms[h]) : nl.vms[h][i] = v

\* C12: for a Separate group of two VMs fetched on the same host, neither
\* pinned, with another host hosting neither, rule_pass emits exactly one
\* operation for the group: the member enumerated first moves to a host that
\* hosts neither member, and the other member gets no operation, whatever the
\* number of hosts.
C12_OneOpPerSeparatedPair ==
    \A r \in Procs :
        pc[r] = "rule_migrate" /\ oi[r] = 1 =>
            \A i \in 1..Len(config.separate) :
                LET g   == config.separate[i]
                    f   == hist[r].fetched
                    ops == OpsOn(rule_ops[r], Range(g))
                IN  (/\ Len(g) = 2
                     /\ g[1] # g[2]
                     /\ \A m \in Range(g) : get_rule(config, m).rule = g
                     /\ \E h \in Range(f.order) : Range(g) \subseteq Range(f.vms[h])
                     /\ \E h \in Range(f.order) : Range(g) \cap Range(f.vms[h]) = {})
                    => /\ Len(ops) = 1
                       /\ Range(g) \subseteq Range(f.vms[ops[1].host])
                       /\ \A m \in Range(g) :
                             EnumIndex(f, ops[1].host, ops[1].vm_name)
                                 <= EnumIndex(f, ops[1].host, m)
                       /\ Range(g) \cap Range(f.vms[ops[1].target]) = {}

\* C13: a VM under a Pin rule fetched on a host other than its pinned host
\* gets exactly one operation of rule_pass, from its current host to the
\* pinned host, when the pinned host is in the inventory (whatever the order
\* of hosts and VMs), and in live mode its task is awaited before the run
\* goes on; when the pinned host is not in the inventory it gets none.
C13_PinnedMovedOnce ==
    \A r \in Procs :
        /\ pc[r] = "rule_migrate" /\ oi[r] = 1 =>
              \A v \in RunningVMs :
                  LET rule == get_rule(config, v)
                      f    == hist[r].fetched
                      ops  == OpsOn(rule_ops[r], {v})
                  IN  rule.type = "pinned" /\ PlacementOf(f)[v] # rule.node =>
                          IF rule.node \in Range(inventory.hosts)
                          THEN ops = <<Op(v, PlacementOf(f)[v], rule.node)>>
                          ELSE ops = <<>>
        /\ \A t \in tasks :
              (/\ t.owner = r
               /\ get_rule(config, t.vm).type = "pinned"
               /\ InRulePhase(r))
              => pc[r] = "rule_wait" /\ taskid[r] = t

\* A live run waits for the migration of a pinned VM that was enumerated
\* after another VM's operation, its pinned host coming first in host order.
C13_Witness ==
    \E r \in Procs :
        /\ ~dry[r]
        /\ pc[r] = "rule_wait"
        /\ get_rule(config, taskid[r].vm).type = "pinned"
        /\ taskid[r].host = "h3"
        /\ hist[r].polls > 0
        /\ oi[r] > 1

NoCandidateFor(d, v) == SelectSeqBy(d, {Diag("no_candidate", v)})

\* C14: when rule_pass evaluates a VM that violates its Separate rule while
\* every host of the inventory hosts another member of its group, it emits no
\* operation, prints one no-candidate diagnostic for the VM, leaves the
\* projected model as it was, and goes on with the next VM of the pass.
C14_NoCandidateIsSkipped ==
    [][\A r \in Procs :
          LET nl   == node_list[r]
              node == CurNode(nl, cursor[r])
              v    == CurVM(nl, cursor[r])
              rule == get_rule(config, v)
          IN  (/\ pc[r] = "rule_pass"
               /\ ~AtEnd(nl, cursor[r])
               /\ cursor'[r] # cursor[r]
               /\ rule.type = "separate"
               /\ \E m \in Members(rule.rule, v) : m \in Range(nl.vms[node])
               /\ \A h \in Range(nl.order) :
                     \E m \in Members(rule.rule, v) : m \in Range(nl.vms[h]))
              => /\ rule_ops'[r] = rule_ops[r]
                 /\ node_list'[r] = nl
                 /\ Len(hist'[r].diag) = Len(hist[r].diag) + 2
                 /\ NoCandidateFor(hist'[r].diag, v) =
                        Append(NoCandidateFor(hist[r].diag, v), Diag("no_candidate", v))
                 /\ pc'[r] = "rule_pass"
                 /\ cursor'[r] = Seek(nl, cursor[r].ni, cursor[r].vi + 1)]_vars

\* On two hosts a member of a three-VM Separate group was found with no
\* candidate although no operation had been planned before it, and rule_pass
\* went on to the next VM.
C14_Witness ==
    \E r \in Procs :
        /\ Len(inventory.hosts) = 2
        /\ Len(hist[r].diag) >= 3
        /\ hist[r].diag[2].kind = "no_candidate"
        /\ hist[r].diag[3].vm_name # hist[r].diag[2].vm_name
        /\ rule_ops[r] = <<>>
        /\ pc[r] = "rule_pass"

\* No two listed members of the Separate group share a host; all listed
\* members of the Unite group share one.
SeparateKept(pl, g) ==
    \A m1, m2 \in Range(g) : m1 # m2 /\ pl[m1] # NoHost => pl[m1] # pl[m2]
UniteKept(pl, g) ==
    \A m1, m2 \in Range(g) : pl[m1] # NoHost /\ pl[m2] # NoHost => pl[m1] = pl[m2]
RulesKept(pl) ==
    /\ \A i \in 1..Len(config.separate) : SeparateKept(pl, config.separate[i])
    /\ \A i \in 1..Len(config.unite) : UniteKept(pl, config.unite[i])

\* C15: balance_pass never creates a Separate or Unite violation: when no
\* Separate and no Unite rule is violated in the fetched placement, none is
\* violated after all operations of the pass are applied in order; two
\* members of a Separate group are never both moved onto the same host.
C15_BalanceKeepsRules ==
    \A r \in Procs :
        pc[r] = "bal_migrate" /\ oi[r] = 1 /\ RulesKept(PlacementOf(hist[r].fetched))
            => RulesKept(ApplyOps(PlacementOf(hist[r].fetched), bal_ops[r]))

\* Placing the VM on host h breaks no Separate and no Unite group naming it,
\* by the VM names listed for h.
C16_Admissible(cfg, nl, h, v) ==
    /\ \A i \in 1..Len(cfg.separate) :
          v \in Range(cfg.separate[i]) =>
              (Range(cfg.separate[i]) \ {v}) \cap Range(nl.vms[h]) = {}
    /\ \A i \in 1..Len(cfg.unite) :
          v \in Range(cfg.unite[i]) =>
              (Range(cfg.unite[i]) \ {v}) \subseteq Range(nl.vms[h])

\* The first host in enumeration order attaining the least used_points + VM
\* points among the admissible hosts other than the source that would stay
\* strictly below the source's used_points; NoHost when there is none.
C16_Expected(inv, cfg, nl, src, v) ==
    LET p     == inv.points[v]
        cands == {h \in Range(nl.order) \ {src} :
                     C16_Admissible(cfg, nl, h, v) /\ nl.used[h] + p < nl.used[src]}
        best  == {h \in cands : \A g \in cands : nl.used[h] + p <= nl.used[g] + p}
        first == SelectSeqBy(nl.order, best)
    IN  IF cands = {} THEN NoHost ELSE first[1]

\* C16: for every VM, source host and projected state that balance_pass
\* hands to calculate_best_host (zero-point VMs and hosts with zero
\* used_points included), the function returns the first host attaining the
\* minimum of used_points + points among the admissible hosts other than the
\* source that would stay strictly below the source, and no target exactly
\* when no such host exists.
C16_BestHostIsFirstMinimum ==
    \A r \in Procs :
        (/\ pc[r] = "balance_pass"
         /\ ~AtEnd(node_list[r], cursor[r])
         /\ ~BalanceSkips(inventory, config, CurVM(node_list[r], cursor[r])))
        => /\ ~BestHostRaises(config)
           /\ calculate_best_host(inventory, config, node_list[r],
                                  CurNode(node_list[r], cursor[r]),
                                  CurVM(node_list[r], cursor[r]))
              = C16_Expected(inventory, config, node_list[r],
                             CurNode(node_list[r], cursor[r]),
                             CurVM(node_list[r], cursor[r]))

RECURSIVE C17_Holds(_, _)
\* Every Unite operation of ops targets a host on which, in placement pl with
\* the operations before it applied, another member of the VM's group resides.
C17_Holds(pl, ops) ==
    IF ops = <<>> THEN TRUE
    ELSE LET o    == Head(ops)
             rule == get_rule(config, o.vm_name)
         IN  /\ (rule.type = "unite" =>
                    \E m \in Members(rule.rule, o.vm_name) : pl[m] = o.target)
             /\ C17_Holds([pl EXCEPT ![o.vm_name] = o.target], Tail(ops))

\* C17: every operation rule_pass emits for a Unite violation targets a host
\* on which, in the fetched placement with the earlier operations of the pass
\* applied, at least one other member of the VM's unite group resides, also
\* when other members were moved earlier in the pass.
C17_UniteTargetHostsMember ==
    \A r \in Procs :
        pc[r] \in {"rule_pass", "rule_migrate"} =>
            C17_Holds(PlacementOf(hist[r].fetched), rule_ops[r])

\* The sum over the hosts of |average - used_points|, times the number of
\* hosts, for the used_points of a fetched inventory.
C18_Sum(nl) ==
    LET hs == Range(nl.order)
        n  == Cardinality(hs)
        t  == SumOver(hs, nl.used)
    IN  SumOver(hs, [h \in hs |-> IF t >= n * nl.used[h] THEN t - n * nl.used[h]
                                  ELSE n * nl.used[h] - t])

\* C18: for every fetched inventory, one whose total used points is zero
\* included, calculate_imbalance completes and returns the sum over the hosts
\* of |average - used_points|; the 30% diagnostic neither changes the value
\* nor aborts the run.
C18_ImbalanceAlwaysReturns ==
    \A r \in Procs :
        hist[r].fetches = 2 /\ pc[r] # "imbalance" =>
            /\ hist[r].disparity = C18_Sum(hist[r].fetched)
            /\ pc[r] # "error" \/ hist[r].failed \/ hist[r].balanced = "yes"

MaxUsed(nl) == CHOOSE m \in {nl.used[h] : h \in Range(nl.order)} :
                   \A h \in Range(nl.order) : nl.used[h] <= m

\* C19: each operation balance_pass plans leaves the disparity (sum over the
\* hosts of |average - used_points|, on the used_points the pass updates) no
\* larger than before it, and the greatest used_points no larger; hence the
\* disparity during and after the pass never exceeds the one that triggered it.
C19_BalanceNeverWorsens ==
    /\ [][\A r \in Procs :
             pc[r] = "balance_pass" /\ bal_ops'[r] # bal_ops[r] =>
                 /\ C18_Sum(node_list'[r]) <= C18_Sum(node_list[r])
                 /\ MaxUsed(node_list'[r]) <= MaxUsed(node_list[r])]_vars
    /\ [](\A r \in Procs :
             pc[r] \in {"balance_pass", "bal_migrate", "bal_wait"} =>
                 C18_Sum(node_list[r]) <= hist[r].disparity)

\* A pass that planned two operations, the second of a VM with points, and
\* brought the disparity strictly below the one that triggered it.
C19_Witness ==
    \E r \in Procs :
        /\ pc[r] = "bal_migrate"
        /\ Len(bal_ops[r]) >= 2
        /\ inventory.points[bal_ops[r][2].vm_name] > 0
        /\ C18_Sum(node_list[r]) < hist[r].disparity

Waiting(r) == pc[r] \in {"rule_wait", "bal_wait"}

\* C20: a run that acquired the lock eventually finishes, the lock released,
\* when every migration task eventually reports a status other than
\* "running" and no external call fails; a wait goes on while the task
\* reports "running", the run and its hold on the lock not ending, and stops
\* at the first other status.
C20_RunEventuallyFinishes ==
    /\ \A r \in Procs :
          (pc[r] = "fetch1") ~> (hist[r].failed \/ (pc[r] = "done" /\ lock # r))
    /\ [](\A r \in Procs : Waiting(r) => lock = r /\ taskid[r] # NoTask)
    /\ [][\A r \in Procs :
             Waiting(r) =>
                 IF taskid[r] \in tasks
                 THEN pc'[r] = pc[r] /\ oi'[r] = oi[r]
                 ELSE pc'[r] = pc[r] \/ (~Waiting(r)' /\ oi'[r] = oi[r] + 1)]_vars

\* The same with the run allowed to end by an exception that leaves
\* balance(): it ends, finished or failed, and the lock is free of it.
C20_RunEventuallyEnds ==
    \A r \in Procs :
        (pc[r] = "fetch1") ~> (pc[r] \in {"done", "error"} /\ lock # r)

====
